---- MODULE Spec2Model ----
(***************************************************************************)
(* A model of bb's terminal cell grid (src/ui/terminal/cells.rs): the      *)
(* CellBuffer with its resize and clear, and the three grid-mutation       *)
(* functions change_colors, clear_area and write_string_to_grid with the   *)
(* inspect_bounds! wrap macro.                                             *)
(*                                                                         *)
(* A CellBuffer is (cols, rows, buf) with buf a flat row-major sequence of *)
(* cells.  write_string_to_grid is modelled one loop iteration at a time   *)
(* (pc = "loop"), every other function as one step.  A panic of the direct *)
(* index (`expect("index out of bounds")`) ends the run in pc = "panic"    *)
(* with the buffer as the unwinding leaves it.                             *)
(***************************************************************************)
EXTENDS Integers, Sequences, FiniteSets, TLC

\* ------------------------------------------------------------------ bounds
\* Largest number of columns and of rows of a buffer; area coordinates range
\* over 0..MaxDim, so that every buffer has coordinates beyond its edges.
MaxDim == 2
\* Largest number of characters of a text written in one call.
MaxLen == 2
\* Largest number of calls in a run of the specification Spec, and largest
\* number of characters of a text written in one of them.
MaxOps == 2
SeqLen == 1
\* In the "abcdef" example, how much wider and higher than the 3 x 2 area the
\* buffer may be.
MaxSlack == 1

\* ------------------------------------------------------------------ values
\* Option::None, for Option<usize> (an index, a width) and Option<Color>.
None == -1
NoColor == "None"

\* The colours given to change_colors: none, or one no blank cell has.
ColorArgs == {NoColor, "Blue"}

TAB == "\t"
CR == "\r"
\* The characters of the texts: a narrow one, a wide one, a zero-width one,
\* one whose width is unknown, the tab and the carriage return.
Chars == {"a", "W", "z", "u", TAB, CR}
\* The text of the "abcdef" example.
Text6 == <<"a", "b", "c", "d", "e", "f">>

\* The results the width function can give.
Widths == {None, 0, 1, 2}

Cell_new(ch, fg, bg, attrs) ==
    [ch |-> ch, empty |-> FALSE, fg |-> fg, bg |-> bg, attrs |-> attrs]

Cell_default == Cell_new(" ", "Default", "Default", "Default")

\* The blank cells of new, resize and clear.
Cell_x == Cell_new("x", "Red", "Red", "Bold")
Blanks == {Cell_default, Cell_x}

Pos == (0..MaxDim) \X (0..MaxDim)
Areas == Pos \X Pos

get_x(p) == p[1]
get_y(p) == p[2]
upper_left(a) == a[1]
bottom_right(a) == a[2]

is_valid_area(a) ==
    ~(get_y(upper_left(a)) > get_y(bottom_right(a))
      \/ get_x(upper_left(a)) > get_x(bottom_right(a)))

\* The styles of a write, (fg_color, bg_color, attrs): Style is one no blank
\* cell has in any field.
Style == <<"Blue", "Blue", "Underline">>
Styles == {Style, <<"Red", "Default", "Bold">>}

\* The areas and characters of the calls of Spec, the specification of
\* sequences of calls: one cell, the largest buffer, a column, an area
\* beyond every buffer, an invalid area.
SeqAreas ==
    {<<<<0, 0>>, <<0, 0>>>>,
     <<<<0, 0>>, <<MaxDim - 1, MaxDim - 1>>>>,
     <<<<1, 0>>, <<1, 1>>>>,
     <<<<MaxDim, 0>>, <<MaxDim, 0>>>>,
     <<<<1, 1>>, <<0, 0>>>>}
SeqChars == {"a", "W", "z"}

VARIABLES
    cols, rows, buf,    \* the CellBuffer
    pc,                 \* "idle", "loop" (inside write_string_to_grid), "panic"
    x, y, i,            \* write_string_to_grid: the cursor, the characters consumed
    ret,                \* the position the last write_string_to_grid returned
    tabw,               \* what the width function gives for the tab
    call,               \* the last call and its arguments
    pre,                \* the CellBuffer when the last call began
    step,               \* the last loop iteration of write_string_to_grid
    kind,               \* per cell, what last wrote it
    budget              \* calls left

vars == <<cols, rows, buf, pc, x, y, i, ret, tabw, call, pre, step, kind, budget>>

NoPos == <<None, None>>
NoStep == [c |-> "", w |-> None, x0 |-> 0, y0 |-> 0, ctl |-> "none", buf0 |-> <<>>]

\* ------------------------------------------------------------ CellBuffer
wcwidth(c) ==
    CASE c = TAB -> tabw
      [] c = CR -> None
      [] c = "W" -> 2
      [] c = "z" -> 0
      [] c = "u" -> None
      [] OTHER -> 1

new(c, r, cell) == [cols |-> c, rows |-> r, buf |-> [k \in 1..(c * r) |-> cell]]

size(g) == <<g.cols, g.rows>>

pos_to_index(g, px, py) ==
    IF px < get_x(size(g)) /\ py < get_y(size(g)) THEN (g.cols * py) + px ELSE None

\* CellAccessor::get with unwrap_or: the cell at (px, py), or dflt when get
\* gives None (pos_to_index gives None, or the index is past the vector).
get_or(g, px, py, dflt) ==
    LET ix == pos_to_index(g, px, py)
    IN IF ix # None /\ ix < Len(g.buf) THEN g.buf[ix + 1] ELSE dflt

\* The cells of the rebuilt buffer, in the order resize pushes them.
resize_newbuf(g, newcols, newrows, blank) ==
    [k \in 1..(newcols * newrows) |->
        get_or(g, (k - 1) % newcols, (k - 1) \div newcols, blank)]

\* resize as it would be without `self.rows = newrows`.
resize_keeps_rows(g, newcols, newrows, blank) ==
    LET newlen == newcols * newrows
    IN IF Len(g.buf) = newlen
       THEN g
       ELSE [cols |-> newcols, rows |-> g.rows,
             buf |-> resize_newbuf(g, newcols, newrows, blank)]

resize(g, newcols, newrows, blank) ==
    LET newlen == newcols * newrows
    IN IF Len(g.buf) = newlen
       THEN g
       ELSE [cols |-> newcols, rows |-> newrows,
             buf |-> resize_newbuf(g, newcols, newrows, blank)]

\* The last-writer record follows the cells through a resize.
resize_kind(g, kd, newcols, newrows) ==
    resize([g EXCEPT !.buf = kd], newcols, newrows, "blank").buf

clear(g, blank) == [g EXCEPT !.buf = [k \in 1..Len(g.buf) |-> blank]]

Grid == [cols |-> cols, rows |-> rows, buf |-> buf]

\* ------------------------------------------------- the loops over an area
\* The positions of an area, and the order the nested loops
\* `for y in uy..=by { for x in ux..=bx {` visit them in.
AreaPos(a) ==
    (get_x(upper_left(a))..get_x(bottom_right(a)))
        \X (get_y(upper_left(a))..get_y(bottom_right(a)))

AreaOrder(a, p) ==
    (get_y(p) - get_y(upper_left(a)))
        * (get_x(bottom_right(a)) - get_x(upper_left(a)) + 1)
    + (get_x(p) - get_x(upper_left(a)))

\* The positions of the area at which grid[(x, y)] panics.
OutOfBounds(g, a) == {p \in AreaPos(a) : pos_to_index(g, get_x(p), get_y(p)) = None}

\* The positions the loops reach before the first panic (all, when none panics).
Visited(g, a) ==
    LET bad == {AreaOrder(a, q) : q \in OutOfBounds(g, a)}
    IN {p \in AreaPos(a) : \A o \in bad : AreaOrder(a, p) < o}

PosOf(g, k) == <<(k - 1) % g.cols, (k - 1) \div g.cols>>

\* change_colors: the buffer it leaves, and whether it panicked.
change_colors(g, a, fg, bg) ==
    LET ul == upper_left(a)
        br == bottom_right(a)
        bounds == size(g)
        recolor(cell) ==
            [cell EXCEPT !.fg = IF fg # NoColor THEN fg ELSE @,
                         !.bg = IF bg # NoColor THEN bg ELSE @]
    IN IF get_y(ul) > get_y(br) \/ get_x(ul) > get_x(br)
          \/ get_y(ul) >= get_y(bounds) \/ get_x(ul) >= get_x(bounds)
       THEN [buf |-> g.buf, panic |-> FALSE]
       ELSE IF ~is_valid_area(a)
       THEN [buf |-> g.buf, panic |-> FALSE]
       ELSE IF fg = NoColor /\ bg = NoColor
       THEN [buf |-> g.buf, panic |-> FALSE]
       ELSE LET done == Visited(g, a)
            IN [buf |-> [k \in 1..Len(g.buf) |->
                           IF PosOf(g, k) \in done
                           THEN recolor(g.buf[k]) ELSE g.buf[k]],
                panic |-> OutOfBounds(g, a) # {}]

\* clear_area as it would be with the inner loop `for x in 0..=get_x(bottom_right)`.
clear_area_from_column_zero(g, a) ==
    IF ~is_valid_area(a)
    THEN [buf |-> g.buf, cleared |-> {}, panic |-> FALSE]
    ELSE LET wide == <<<<0, get_y(upper_left(a))>>, bottom_right(a)>>
             done == Visited(g, wide)
         IN [buf |-> [k \in 1..Len(g.buf) |->
                        IF PosOf(g, k) \in done
                        THEN [ch |-> " ", bg |-> "Default", fg |-> "Default",
                              attrs |-> "Default", empty |-> FALSE]
                        ELSE g.buf[k]],
             cleared |-> {k \in 1..Len(g.buf) : PosOf(g, k) \in done},
             panic |-> OutOfBounds(g, wide) # {}]

\* clear_area: the buffer it leaves, the cells it cleared, whether it panicked.
clear_area(g, a) ==
    IF ~is_valid_area(a)
    THEN [buf |-> g.buf, cleared |-> {}, panic |-> FALSE]
    ELSE LET done == Visited(g, a)
         IN [buf |-> [k \in 1..Len(g.buf) |->
                        IF PosOf(g, k) \in done
                        THEN [ch |-> " ", bg |-> "Default", fg |-> "Default",
                              attrs |-> "Default", empty |-> FALSE]
                        ELSE g.buf[k]],
             cleared |-> {k \in 1..Len(g.buf) : PosOf(g, k) \in done},
             panic |-> OutOfBounds(g, a) # {}]

\* ------------------------------------------------- write_string_to_grid
\* The state of one loop iteration: the grid, the cursor, and how the
\* iteration goes on: "go", "return" (the macro's return), "break" (its
\* break) or "panic" (a direct index out of range).
Machine(g, kd, px, py) ==
    [cols |-> g.cols, rows |-> g.rows, buf |-> g.buf, kind |-> kd,
     x |-> px, y |-> py, ctl |-> "go"]

\* grid[(x, y)].<field> = v, through IndexMut<Pos>.
index_mut(m, fld, v) ==
    IF m.ctl # "go" THEN m
    ELSE LET ix == pos_to_index(m, m.x, m.y)
         IN IF ix = None \/ ix >= Len(m.buf)
            THEN [m EXCEPT !.ctl = "panic"]
            ELSE [m EXCEPT !.buf[ix + 1][fld] = v]

\* Records what wrote the cell under the cursor.
mark(m, k) ==
    IF m.ctl # "go" THEN m
    ELSE [m EXCEPT !.kind[pos_to_index(m, m.x, m.y) + 1] = k]

set_ch(m, c) == mark(index_mut(m, "ch", c), "ch")

set_empty(m, k) == mark(index_mut(m, "empty", TRUE), k)

\* x += 1
advance(m) == IF m.ctl # "go" THEN m ELSE [m EXCEPT !.x = @ + 1]

\* inspect_bounds! as it would be returning before `$x = get_x(upper_left)`.
inspect_bounds_keeps_x(m, a, line_break) ==
    LET bounds == size(m)
        ul == upper_left(a)
        br == bottom_right(a)
    IN IF m.ctl # "go" THEN m
       ELSE IF m.x = get_x(br) + 1 \/ m.x > get_x(bounds)
       THEN IF m.y + 1 > get_y(br) \/ m.y + 1 > get_y(bounds)
            THEN [m EXCEPT !.ctl = "return"]
            ELSE IF ~line_break
            THEN [m EXCEPT !.x = get_x(ul), !.y = @ + 1, !.ctl = "break"]
            ELSE [m EXCEPT !.x = get_x(ul), !.y = @ + 1]
       ELSE m

\* inspect_bounds! as it would be without `if !$line_break { break; }`.
inspect_bounds_no_break(m, a, line_break) ==
    LET bounds == size(m)
        ul == upper_left(a)
        br == bottom_right(a)
    IN IF m.ctl # "go" THEN m
       ELSE IF m.x = get_x(br) + 1 \/ m.x > get_x(bounds)
       THEN IF m.y + 1 > get_y(br) \/ m.y + 1 > get_y(bounds)
            THEN [m EXCEPT !.x = get_x(ul), !.ctl = "return"]
            ELSE [m EXCEPT !.x = get_x(ul), !.y = @ + 1]
       ELSE m

inspect_bounds(m, a, line_break) ==
    LET bounds == size(m)
        ul == upper_left(a)
        br == bottom_right(a)
    IN IF m.ctl # "go" THEN m
       ELSE IF m.x = get_x(br) + 1 \/ m.x > get_x(bounds)
       THEN IF m.y + 1 > get_y(br) \/ m.y + 1 > get_y(bounds)
            THEN [m EXCEPT !.x = get_x(ul), !.ctl = "return"]
            ELSE IF ~line_break
            THEN [m EXCEPT !.x = get_x(ul), !.y = @ + 1, !.ctl = "break"]
            ELSE [m EXCEPT !.x = get_x(ul), !.y = @ + 1]
       ELSE m

\* The three stamps at the head of the loop body.
stamp(m, fg, bg, at) ==
    index_mut(index_mut(index_mut(m, "attrs", at), "fg", fg), "bg", bg)

\* The tab branch as it would be writing one space and not advancing.
put_char_one_space(m, c, a, line_break) ==
    IF c = TAB THEN set_ch(m, " ") ELSE set_ch(m, c)

put_char(m, c, a, line_break) ==
    IF c = TAB
    THEN set_ch(inspect_bounds(advance(set_ch(m, " ")), a, line_break), " ")
    ELSE set_ch(m, c)

\* The Some(2) arm as it would be marking the cell before `x += 1`.
width_arm_marks_first(m, w, a, line_break) ==
    CASE w = 0 \/ w = None -> set_empty(m, "zero")
      [] w = 2 -> inspect_bounds(advance(set_empty(m, "trail")), a, line_break)
      [] OTHER -> m

width_arm(m, w, a, line_break) ==
    CASE w = 0 \/ w = None -> set_empty(m, "zero")
      [] w = 2 -> set_empty(inspect_bounds(advance(m), a, line_break), "trail")
      [] OTHER -> m

\* One iteration of `for c in s.chars()`.
loop_body(m, c, w, a, fg, bg, at, line_break) ==
    IF c = CR THEN m
    ELSE inspect_bounds(
             advance(width_arm(put_char(stamp(m, fg, bg, at), c, a, line_break),
                               w, a, line_break)),
             a, line_break)

\* The checks before the loop: TRUE when write_string_to_grid returns at once.
early_return(g, a) ==
    LET bounds == size(g)
        ul == upper_left(a)
        br == bottom_right(a)
    IN \/ get_y(ul) = get_y(bounds) \/ get_x(ul) = get_x(bounds)
       \/ get_y(ul) > get_y(br) \/ get_x(ul) > get_x(br)
       \/ get_y(ul) > get_y(bounds) \/ get_x(ul) > get_x(bounds)


\* ------------------------------------------------------------- the calls
NoArea == <<<<0, 0>>, <<0, 0>>>>

Call(op, a, fg, bg, at, lb, nc, nr, b) ==
    [op |-> op, area |-> a, fg_color |-> fg, bg_color |-> bg, attrs |-> at,
     line_break |-> lb, newcols |-> nc, newrows |-> nr, blank |-> b]

NoCall == Call("new", NoArea, NoColor, NoColor, "Default", FALSE, 0, 0, Cell_default)

\* The state after CellBuffer::new(c, r, b), with n calls to come.
Created(c, r, b, n) ==
    /\ cols = new(c, r, b).cols /\ rows = new(c, r, b).rows /\ buf = new(c, r, b).buf
    /\ pc = "idle" /\ x = 0 /\ y = 0 /\ i = 0 /\ ret = NoPos
    /\ call = NoCall
    /\ pre = new(c, r, b)
    /\ step = NoStep
    /\ kind = [k \in 1..(c * r) |-> "blank"]
    /\ budget = n

\* A call can begin: no call is running, none has panicked.
Idle == pc = "idle" /\ budget > 0

\* What every call that is one step does besides its effect on the buffer.
Called(c, panicked) ==
    /\ Idle
    /\ budget' = budget - 1
    /\ call' = c
    /\ pre' = Grid
    /\ pc' = IF panicked THEN "panic" ELSE "idle"
    /\ x' = 0 /\ y' = 0 /\ i' = 0 /\ ret' = NoPos /\ step' = NoStep
    /\ UNCHANGED tabw

Resize(nc, nr, b) ==
    /\ Called(Call("resize", NoArea, NoColor, NoColor, "Default", FALSE, nc, nr, b), FALSE)
    /\ LET g == resize(Grid, nc, nr, b)
       IN cols' = g.cols /\ rows' = g.rows /\ buf' = g.buf
    /\ kind' = resize_kind(Grid, kind, nc, nr)

Clear(b) ==
    /\ Called(Call("clear", NoArea, NoColor, NoColor, "Default", FALSE, 0, 0, b), FALSE)
    /\ buf' = clear(Grid, b).buf
    /\ kind' = [k \in 1..Len(buf) |-> "blank"]
    /\ UNCHANGED <<cols, rows>>

ChangeColors(a, fg, bg) ==
    LET r == change_colors(Grid, a, fg, bg)
    IN /\ Called(Call("change_colors", a, fg, bg, "Default", FALSE, 0, 0, Cell_default),
                 r.panic)
       /\ buf' = r.buf
       /\ UNCHANGED <<cols, rows, kind>>

ClearArea(a) ==
    LET r == clear_area(Grid, a)
    IN /\ Called(Call("clear_area", a, NoColor, NoColor, "Default", FALSE, 0, 0,
                      Cell_default), r.panic)
       /\ buf' = r.buf
       /\ kind' = [k \in 1..Len(buf) |-> IF k \in r.cleared THEN "clear" ELSE kind[k]]
       /\ UNCHANGED <<cols, rows>>

\* write_string_to_grid up to its loop: it returns at once, or enters the loop.
WriteBegin(a, fg, bg, at, lb) ==
    /\ Idle
    /\ budget' = budget - 1
    /\ call' = Call("write", a, fg, bg, at, lb, 0, 0, Cell_default)
    /\ pre' = Grid
    /\ step' = NoStep
    /\ i' = 0
    /\ IF early_return(Grid, a)
       THEN pc' = "idle" /\ ret' = upper_left(a) /\ x' = 0 /\ y' = 0
       ELSE pc' = "loop" /\ ret' = NoPos
            /\ x' = get_x(upper_left(a)) /\ y' = get_y(upper_left(a))
    /\ UNCHANGED <<cols, rows, buf, kind, tabw>>

\* One iteration of the loop, on the next character c of the text.
WriteChar(c) ==
    /\ pc = "loop"
    /\ LET m == loop_body(Machine(Grid, kind, x, y), c, wcwidth(c), call.area,
                          call.fg_color, call.bg_color, call.attrs, call.line_break)
       IN /\ buf' = m.buf
          /\ kind' = m.kind
          /\ step' = [c |-> c, w |-> wcwidth(c), x0 |-> x, y0 |-> y,
                      ctl |-> m.ctl, buf0 |-> buf]
          /\ pc' = CASE m.ctl = "go" -> "loop"
                     [] m.ctl = "panic" -> "panic"
                     [] OTHER -> "idle"
          /\ ret' = IF m.ctl \in {"return", "break"} THEN <<m.x, m.y>> ELSE NoPos
          /\ x' = IF m.ctl \in {"return", "break"} THEN 0 ELSE m.x
          /\ y' = IF m.ctl \in {"return", "break"} THEN 0 ELSE m.y
    /\ i' = i + 1
    /\ UNCHANGED <<cols, rows, tabw, call, pre, budget>>

\* The text is exhausted: `(x, y)` after the loop.
WriteEnd ==
    /\ pc = "loop"
    /\ pc' = "idle"
    /\ ret' = <<x, y>>
    /\ x' = 0 /\ y' = 0
    /\ UNCHANGED <<cols, rows, buf, i, tabw, call, pre, step, kind, budget>>

\* Any sequence of at most MaxOps calls on a new buffer, the areas and the
\* characters drawn from SeqAreas and SeqChars.
Init ==
    /\ \E c \in 0..MaxDim, r \in 0..MaxDim : Created(c, r, Cell_x, MaxOps)
    /\ tabw = None

Next ==
    \/ Idle /\ \E nc \in 0..MaxDim, nr \in 0..MaxDim, b \in Blanks : Resize(nc, nr, b)
    \/ Idle /\ \E b \in Blanks : Clear(b)
    \/ Idle /\ \E a \in SeqAreas, fg \in ColorArgs, bg \in ColorArgs : ChangeColors(a, fg, bg)
    \/ Idle /\ \E a \in SeqAreas : ClearArea(a)
    \/ Idle /\ \E a \in SeqAreas, lb \in BOOLEAN :
          WriteBegin(a, Style[1], Style[2], Style[3], lb)
    \/ pc = "loop" /\ i < SeqLen /\ \E c \in SeqChars : WriteChar(c)
    \/ WriteEnd

Spec == Init /\ [][Next]_vars

\* One call of a grid-mutation function on a new buffer: every area, every
\* text of at most MaxLen characters, every width of the tab.
InitMutate ==
    /\ \E c \in 0..MaxDim, r \in 0..MaxDim : Created(c, r, Cell_x, 1)
    /\ tabw \in Widths

NextMutate ==
    \/ Idle /\ \E a \in Areas, fg \in ColorArgs, bg \in ColorArgs : ChangeColors(a, fg, bg)
    \/ Idle /\ \E a \in Areas : ClearArea(a)
    \/ Idle /\ \E a \in Areas, lb \in BOOLEAN :
          WriteBegin(a, Style[1], Style[2], Style[3], lb)
    \/ pc = "loop" /\ i < MaxLen /\ \E c \in Chars : WriteChar(c)
    \/ WriteEnd

SpecMutate == InitMutate /\ [][NextMutate]_vars

\* The "abcdef" example: a prefix of Text6 written with line breaks into the
\* 3 x 2 area at (0, 0) of a new buffer that contains the area.
Area32 == <<<<0, 0>>, <<2, 1>>>>

InitAbcdef ==
    /\ \E c \in 3..(3 + MaxSlack), r \in 2..(2 + MaxSlack), b \in Blanks :
          Created(c, r, b, 1)
    /\ tabw \in Widths

NextAbcdef ==
    \/ Idle /\ \E st \in Styles : WriteBegin(Area32, st[1], st[2], st[3], TRUE)
    \/ i < Len(Text6) /\ WriteChar(Text6[i + 1])
    \/ WriteEnd

SpecAbcdef == InitAbcdef /\ [][NextAbcdef]_vars

\* ============================================================== claims
\* The cell of buffer b (c columns wide) at position p.
CellAt(b, c, p) == b[(c * get_y(p)) + get_x(p) + 1]

\* Position p is a cell of the buffer.
InBuf(p) == get_x(p) < cols /\ get_y(p) < rows /\ (cols * get_y(p)) + get_x(p) < Len(buf)

\* The area is valid and lies completely inside the buffer.
Inside(a) ==
    /\ get_x(upper_left(a)) <= get_x(bottom_right(a))
    /\ get_y(upper_left(a)) <= get_y(bottom_right(a))
    /\ get_x(bottom_right(a)) < cols
    /\ get_y(bottom_right(a)) < rows

\* The wrap rule as the specification words it: one column on, and when
\* that is one past the area's right edge or past the buffer's columns, back
\* to the area's left edge, one row down.
Adv(a, p) ==
    IF get_x(p) + 1 = get_x(bottom_right(a)) + 1 \/ get_x(p) + 1 > cols
    THEN <<get_x(upper_left(a)), get_y(p) + 1>>
    ELSE <<get_x(p) + 1, get_y(p)>>

\* The last loop iteration went through and the loop goes on; where its
\* cursor was.
Stepped == pc = "loop" /\ call.op = "write" /\ step.ctl = "go"
StepPos == <<step.x0, step.y0>>

\* C1: in every reachable state the cell vector is cols * rows long, with
\* cols and rows as size() reports them.
C1_LengthIsColsTimesRows ==
    Len(buf) = get_x(size(Grid)) * get_y(size(Grid))

\* C1's case: a resize to another shape with the same number of cells.
C1_Witness ==
    /\ call.op = "resize"
    /\ Len(pre.buf) > 0
    /\ call.newcols * call.newrows = Len(pre.buf)
    /\ <<call.newcols, call.newrows>> # <<pre.cols, pre.rows>>

\* C2: after resize(nc, nr, blank) the buffer is nc by nr, the cells of the
\* old rectangle are where they were and every other cell is blank.
C2_ResizeRebuilds ==
    call.op = "resize" =>
        /\ cols = call.newcols
        /\ rows = call.newrows
        /\ Len(buf) = call.newcols * call.newrows
        /\ \A px \in 0..(call.newcols - 1), py \in 0..(call.newrows - 1) :
              CellAt(buf, cols, <<px, py>>) =
                  IF px < pre.cols /\ py < pre.rows
                  THEN CellAt(pre.buf, pre.cols, <<px, py>>)
                  ELSE call.blank

\* C3: a grid-mutation call whose area's upper-left corner is outside the
\* buffer completes without a panic and leaves every cell as it was.
C3_OutsideAreaIsNoOp ==
    (/\ call.op \in {"change_colors", "clear_area", "write"}
     /\ \/ get_x(upper_left(call.area)) >= cols
        \/ get_y(upper_left(call.area)) >= rows)
    => (pc # "panic" /\ buf = pre.buf)

\* C4: write_string_to_grid never panics, whatever the text and the area.
C4_WriteNeverPanics ==
    call.op = "write" => pc # "panic"

\* The cells of the 3 x 2 area after "abcdef".
AbcdefCells ==
    \A k \in 1..6 :
        CellAt(buf, cols, <<(k - 1) % 3, (k - 1) \div 3>>).ch = Text6[k]

AbcdefDone == pc = "idle" /\ call.op = "write" /\ i = Len(Text6)

\* C5, as amended: "abcdef" written with line breaks into the 3 x 2 area at
\* (0, 0) leaves "abc" in row 0 and "def" in row 1, and returns the cursor
\* (0, 1): the last advance wraps the column to the area's left edge.
C5_AbcdefReturnsLeftEdge ==
    AbcdefDone => (AbcdefCells /\ ret = <<0, 1>>)

\* C5's case: all of "abcdef" written into a buffer larger than the area.
C5_Witness == AbcdefDone /\ cols > 3 /\ rows > 2

\* C5, as stated: the same cells, and the returned cursor is (3, 1).
C5_AbcdefReturnsPastEdge ==
    AbcdefDone => (AbcdefCells /\ ret = <<3, 1>>)

\* C6: without line breaks, in a valid area inside the buffer, a write
\* changes no cell outside the row of the area's upper-left corner, and
\* while it goes on the cursor is in that row, not past the right edge.
C6_NoLineBreakStaysInRow ==
    (call.op = "write" /\ ~call.line_break /\ Inside(call.area)) =>
        /\ pc # "panic"
        /\ \A k \in 1..Len(buf) :
              get_y(PosOf(Grid, k)) # get_y(upper_left(call.area))
                  => buf[k] = pre.buf[k]
        /\ pc = "loop" =>
              /\ y = get_y(upper_left(call.area))
              /\ x \in get_x(upper_left(call.area))..get_x(bottom_right(call.area))

\* C6's case: a tab or a wide character at the right edge of an area with a
\* row below, which ends the write.
C6_Witness ==
    /\ call.op = "write" /\ ~call.line_break /\ Inside(call.area)
    /\ get_y(bottom_right(call.area)) > get_y(upper_left(call.area))
    /\ step.c \in {TAB, "W"}
    /\ step.x0 = get_x(bottom_right(call.area))
    /\ step.ctl = "break"
    /\ pc = "idle"

\* A tab was written and the loop goes on: the two cells one advance apart
\* hold a space, and no other cell's character changed.
TabStepped == Stepped /\ step.c = TAB

TwoSpaces ==
    /\ InBuf(StepPos) /\ InBuf(Adv(call.area, StepPos))
    /\ CellAt(buf, cols, StepPos).ch = " "
    /\ CellAt(buf, cols, Adv(call.area, StepPos)).ch = " "
    /\ \A k \in 1..Len(buf) :
          PosOf(Grid, k) \notin {StepPos, Adv(call.area, StepPos)}
              => buf[k].ch = step.buf0[k].ch

\* C7, as amended: a tab that hits no wrap stop writes exactly two spaces;
\* it advances the cursor by two columns when the width function gives 0, 1
\* or unknown for the tab, and by three, the third cell marked empty, when
\* it gives 2.
C7_TabTwoColumnsUnlessWide ==
    TabStepped =>
        /\ TwoSpaces
        /\ tabw # 2 => <<x, y>> = Adv(call.area, Adv(call.area, StepPos))
        /\ tabw = 2 =>
              /\ <<x, y>> = Adv(call.area, Adv(call.area, Adv(call.area, StepPos)))
              /\ InBuf(Adv(call.area, Adv(call.area, StepPos)))
              /\ CellAt(buf, cols, Adv(call.area, Adv(call.area, StepPos))).empty

\* C7's case: a tab of unknown width whose second space wrapped to the next row.
C7_Witness == TabStepped /\ tabw = None /\ y > step.y0

\* C7, as stated: two spaces and two columns whatever the width of the tab.
C7_TabAlwaysTwoColumns ==
    TabStepped =>
        /\ TwoSpaces
        /\ <<x, y>> = Adv(call.area, Adv(call.area, StepPos))

\* C8: a character other than tab and carriage return that hits no wrap
\* stop: of width 2, the glyph in its cell, the next cell marked empty, the
\* cursor two columns on; of width 0 or unknown, its cell marked empty, the
\* cursor one column on; of width 1, no empty flag set, one column on.
C8_WidthArms ==
    (Stepped /\ step.c \notin {TAB, CR}) =>
        /\ InBuf(StepPos)
        /\ CellAt(buf, cols, StepPos).ch = step.c
        /\ step.w = 2 =>
              /\ InBuf(Adv(call.area, StepPos))
              /\ CellAt(buf, cols, Adv(call.area, StepPos)).empty
              /\ CellAt(buf, cols, StepPos).empty
                    = CellAt(step.buf0, cols, StepPos).empty
              /\ <<x, y>> = Adv(call.area, Adv(call.area, StepPos))
        /\ step.w \in {0, None} =>
              /\ CellAt(buf, cols, StepPos).empty
              /\ <<x, y>> = Adv(call.area, StepPos)
        /\ step.w = 1 =>
              /\ \A k \in 1..Len(buf) : buf[k].empty = step.buf0[k].empty
              /\ <<x, y>> = Adv(call.area, StepPos)

\* C8's case: a wide character at the right edge, its second half on the
\* next row.
C8_Witness ==
    /\ Stepped /\ step.c = "W" /\ step.w = 2
    /\ step.x0 = get_x(bottom_right(call.area))
    /\ y = step.y0 + 1

\* C9: a cell is marked empty only if what last wrote it was a zero-width
\* or unknown-width character or the trailing half of a wide one.
C9_EmptyOnlyForZeroOrTrailing ==
    \A k \in 1..Len(buf) : buf[k].empty => kind[k] \in {"zero", "trail"}

\* C10: with a valid area inside the buffer, write_string_to_grid,
\* change_colors and clear_area leave every cell outside the area as it
\* was; the cursor a write returns is in the area; change_colors leaves
\* character, attributes and empty flag of every cell as they were.
C10_Frame ==
    (call.op \in {"write", "change_colors", "clear_area"} /\ Inside(call.area)) =>
        /\ pc # "panic"
        /\ \A k \in 1..Len(buf) :
              PosOf(Grid, k) \notin AreaPos(call.area) => buf[k] = pre.buf[k]
        /\ (call.op = "write" /\ pc = "idle") => ret \in AreaPos(call.area)
        /\ call.op = "change_colors" =>
              \A k \in 1..Len(buf) :
                  /\ buf[k].ch = pre.buf[k].ch
                  /\ buf[k].attrs = pre.buf[k].attrs
                  /\ buf[k].empty = pre.buf[k].empty

\* C10's case: a write that filled an area smaller than the buffer and
\* returned from the wrap at its last row.
C10_Witness ==
    /\ call.op = "write" /\ Inside(call.area) /\ pc = "idle"
    /\ step.ctl = "return"
    /\ get_x(upper_left(call.area)) > 0
    /\ get_y(bottom_right(call.area)) < rows - 1
    /\ buf # pre.buf

====
